---- MODULE Spec2Model ----
(***************************************************************************)
(* CollectionMap (src/map/mod.ts): the extended Map of collection-utils.   *)
(*                                                                         *)
(* The map is a sequence of <<key, value>> entries with distinct keys, in  *)
(* insertion order, as a native JavaScript Map keeps them.  Values are     *)
(* tokens: "undefined", "NaN" and "1".  Every caller-supplied function is  *)
(* a TLA+ function from its arguments to an outcome: a value it returns,   *)
(* or Throw.  Each action is one call of one method on the map; `last`     *)
(* records the call, the map before it, what it returned and every         *)
(* invocation of a caller function it made, until the caller takes the     *)
(* result (Return) and makes its next call.  The library is synchronous:   *)
(* one call runs to completion before the next starts.                     *)
(*                                                                         *)
(* Spec has every method that works on the map alone; SpecSetAll has       *)
(* setAll, which takes a second map, on maps built with set; SpecAll has   *)
(* both; SpecClean has the operations that remove an entry whose value     *)
(* would be undefined.                                                     *)
(*                                                                         *)
(* CollectionSet (src/unnamed/part_003): the extended Set.  In SpecSet the *)
(* variable m holds the receiver set, a sequence of distinct values in     *)
(* insertion order, built with the native add and combined with union.     *)
(***************************************************************************)
EXTENDS Integers, Sequences, FiniteSets, TLC

VARIABLES m, last

vars == <<m, last>>

\* Number of distinct keys the callers use.
NumKeys == 2

Keys == 1..NumKeys

\* The JavaScript values stored in the map; undefined is the absence indicator.
Undefined == "undefined"
Val == {Undefined, "NaN", "1"}

\* A caller function either returns a value or throws.
Throw == "throw"
Outcome == Val \cup {Throw}

\* An argument the caller left out.
NoArg == "noarg"

\* const undefinedSymbol = Symbol("collections::undefined"), module-private.
undefinedSymbol == "Symbol(collections::undefined)"

\* JavaScript booleans as returned values.
Bool(b) == IF b THEN "true" ELSE "false"

\* Object.is: same-value equality.  On the tokens of Val it is identity
\* (Object.is(NaN, NaN) is true).
ObjectIs(a, b) == a = b

\* A parameter with a default initializer (`p = dflt`): the default applies
\* when the argument is left out and also when it is passed as undefined.
DefaultParam(arg, dflt) == IF arg = NoArg \/ arg = Undefined THEN dflt ELSE arg

----------------------------------------------------------------------------
\* The native Map (super.*).

MapHas(mp, key) == \E i \in 1..Len(mp) : mp[i][1] = key

MapIndex(mp, key) == CHOOSE i \in 1..Len(mp) : mp[i][1] = key

MapGet(mp, key) == IF MapHas(mp, key) THEN mp[MapIndex(mp, key)][2] ELSE Undefined

MapSet(mp, key, value) ==
    IF MapHas(mp, key)
    THEN [mp EXCEPT ![MapIndex(mp, key)] = <<key, value>>]
    ELSE Append(mp, <<key, value>>)

MapDelete(mp, key) == SelectSeq(mp, LAMBDA e : e[1] # key)

MapSize(mp) == Len(mp)

MapKeys(mp) == {mp[i][1] : i \in 1..Len(mp)}

----------------------------------------------------------------------------
\* Results of a method call: the map afterwards, the returned value, the
\* invocations of caller functions, and whether an exception propagated.

Call(name, key, args, out) == [fn |-> name, key |-> key, args |-> args, out |-> out]

Returned(mp, ret, calls) == [m |-> mp, ret |-> ret, calls |-> calls, threw |-> FALSE]

Thrown(mp, calls) == [m |-> mp, ret |-> Throw, calls |-> calls, threw |-> TRUE]

----------------------------------------------------------------------------
\* The methods of CollectionMap.

\* Mutant: the default also replaces a stored undefined (super.get(key) ?? def).
get_defaultOnUndefined(mp, key, defArg) ==
    LET def == DefaultParam(defArg, Undefined)
    IN  IF MapGet(mp, key) # Undefined THEN MapGet(mp, key) ELSE def

get(mp, key, defArg) ==
    LET def == DefaultParam(defArg, Undefined)
    IN  IF MapHas(mp, key) THEN MapGet(mp, key) ELSE def

\* Mutant: entries holding undefined are not counted.
empty_ignoresUndefined(mp) == Bool(\A i \in 1..Len(mp) : mp[i][2] = Undefined)

\* get empty(): super.size === 0
empty(mp) == Bool(MapSize(mp) = 0)

\* The === operator on the tokens of Val: NaN is not equal to itself.
StrictEquals(a, b) == a = b /\ a # "NaN"

\* Mutant: the values are compared with === instead of Object.is.
hasValue_strictEquals(mp, value) ==
    Returned(mp, Bool(\E i \in 1..Len(mp) : StrictEquals(value, mp[i][2])), <<>>)

\* for (const v of super.values()) if (Object.is(value, v)) return true
hasValue(mp, value) ==
    Returned(mp, Bool(\E i \in 1..Len(mp) : ObjectIs(value, mp[i][2])), <<>>)

\* Mutant: no sentinel; the stored value is always compared with the argument.
delete_alwaysCompares(mp, key, valueArg) ==
    LET value == DefaultParam(valueArg, Undefined)
        v == MapGet(mp, key)
    IN  IF ObjectIs(v, value)
        THEN Returned(MapDelete(mp, key), Bool(MapHas(mp, key)), <<>>)
        ELSE Returned(mp, "false", <<>>)

\* Mutant: with a value given, every entry holding it is removed.
delete_removesAllMatching(mp, key, valueArg) ==
    LET value == DefaultParam(valueArg, undefinedSymbol)
        v == MapGet(mp, key)
    IN  IF value = undefinedSymbol
        THEN Returned(MapDelete(mp, key), Bool(MapHas(mp, key)), <<>>)
        ELSE IF ObjectIs(v, value)
             THEN Returned(SelectSeq(mp, LAMBDA e : ~ObjectIs(e[2], value)),
                           Bool(MapHas(mp, key)), <<>>)
             ELSE Returned(mp, "false", <<>>)

delete(mp, key, valueArg) ==
    LET value == DefaultParam(valueArg, undefinedSymbol)
        v == MapGet(mp, key)
    IN  IF value = undefinedSymbol
        THEN Returned(MapDelete(mp, key), Bool(MapHas(mp, key)), <<>>)
        ELSE IF ObjectIs(v, value)
             THEN Returned(MapDelete(mp, key), Bool(MapHas(mp, key)), <<>>)
             ELSE Returned(mp, "false", <<>>)

\* Mutant: the result is written with set even when it is undefined.
compute_setsUndefined(mp, key, mappingFunction) ==
    LET arg == <<key, get(mp, key, NoArg)>>
        value == mappingFunction[arg]
        calls == <<Call("mappingFunction", key, arg, value)>>
    IN  IF value = Throw THEN Thrown(mp, calls)
        ELSE Returned(MapSet(mp, key, value), value, calls)

\* Mutant: the value looked up before the call is returned.
compute_returnsPrevious(mp, key, mappingFunction) ==
    LET arg == <<key, get(mp, key, NoArg)>>
        value == mappingFunction[arg]
        calls == <<Call("mappingFunction", key, arg, value)>>
    IN  IF value = Throw THEN Thrown(mp, calls)
        ELSE IF value = Undefined
             THEN Returned(delete(mp, key, NoArg).m, arg[2], calls)
             ELSE Returned(MapSet(mp, key, value), arg[2], calls)

\* Mutant: an undefined result leaves the map as it is.
compute_keepsOnUndefined(mp, key, mappingFunction) ==
    LET arg == <<key, get(mp, key, NoArg)>>
        value == mappingFunction[arg]
        calls == <<Call("mappingFunction", key, arg, value)>>
    IN  IF value = Throw THEN Thrown(mp, calls)
        ELSE IF value = Undefined
             THEN Returned(mp, value, calls)
             ELSE Returned(MapSet(mp, key, value), value, calls)

\* Mutant: the entry is removed before the function is called.
compute_deletesBeforeCall(mp, key, mappingFunction) ==
    LET arg == <<key, get(mp, key, NoArg)>>
        value == mappingFunction[arg]
        calls == <<Call("mappingFunction", key, arg, value)>>
    IN  IF value = Throw THEN Thrown(MapDelete(mp, key), calls)
        ELSE IF value = Undefined
             THEN Returned(delete(mp, key, NoArg).m, value, calls)
             ELSE Returned(MapSet(mp, key, value), value, calls)

compute(mp, key, mappingFunction) ==
    LET arg == <<key, get(mp, key, NoArg)>>
        value == mappingFunction[arg]
        calls == <<Call("mappingFunction", key, arg, value)>>
    IN  IF value = Throw THEN Thrown(mp, calls)
        ELSE IF value = Undefined
             THEN Returned(delete(mp, key, NoArg).m, value, calls)
             ELSE Returned(MapSet(mp, key, value), value, calls)

\* Mutant: absence is decided by get(key) === undefined instead of has(key).
computeIfAbsent_presenceByValue(mp, key, mappingFunction) ==
    IF get(mp, key, NoArg) = Undefined
    THEN LET value == mappingFunction[key]
             calls == <<Call("mappingFunction", key, <<key>>, value)>>
         IN  IF value = Throw THEN Thrown(mp, calls)
             ELSE IF value # Undefined
                  THEN Returned(MapSet(mp, key, value), value, calls)
                  ELSE Returned(mp, value, calls)
    ELSE Returned(mp, MapGet(mp, key), <<>>)

\* Mutant: the result is stored without the check for undefined.
computeIfAbsent_storesUndefined(mp, key, mappingFunction) ==
    IF ~MapHas(mp, key)
    THEN LET value == mappingFunction[key]
             calls == <<Call("mappingFunction", key, <<key>>, value)>>
         IN  IF value = Throw THEN Thrown(mp, calls)
             ELSE Returned(MapSet(mp, key, value), value, calls)
    ELSE Returned(mp, MapGet(mp, key), <<>>)

computeIfAbsent(mp, key, mappingFunction) ==
    IF ~MapHas(mp, key)
    THEN LET value == mappingFunction[key]
             calls == <<Call("mappingFunction", key, <<key>>, value)>>
         IN  IF value = Throw THEN Thrown(mp, calls)
             ELSE IF value # Undefined
                  THEN Returned(MapSet(mp, key, value), value, calls)
                  ELSE Returned(mp, value, calls)
    ELSE Returned(mp, MapGet(mp, key), <<>>)

\* Mutant: a missing key raises an error instead of returning undefined.
computeIfPresent_throwsOnMissing(mp, key, remappingFunction) ==
    IF MapHas(mp, key)
    THEN LET arg == <<key, MapGet(mp, key)>>
             value == remappingFunction[arg]
             calls == <<Call("remappingFunction", key, arg, value)>>
         IN  IF value = Throw THEN Thrown(mp, calls)
             ELSE IF value = Undefined
                  THEN Returned(MapDelete(mp, key), value, calls)
                  ELSE Returned(MapSet(mp, key, value), value, calls)
    ELSE Thrown(mp, <<>>)

\* Mutant: an undefined result leaves the entry in place.
computeIfPresent_keepsOnUndefined(mp, key, remappingFunction) ==
    IF MapHas(mp, key)
    THEN LET arg == <<key, MapGet(mp, key)>>
             value == remappingFunction[arg]
             calls == <<Call("remappingFunction", key, arg, value)>>
         IN  IF value = Throw THEN Thrown(mp, calls)
             ELSE IF value = Undefined
                  THEN Returned(mp, value, calls)
                  ELSE Returned(MapSet(mp, key, value), value, calls)
    ELSE Returned(mp, Undefined, <<>>)

computeIfPresent(mp, key, remappingFunction) ==
    IF MapHas(mp, key)
    THEN LET arg == <<key, MapGet(mp, key)>>
             value == remappingFunction[arg]
             calls == <<Call("remappingFunction", key, arg, value)>>
         IN  IF value = Throw THEN Thrown(mp, calls)
             ELSE IF value = Undefined
                  THEN Returned(MapDelete(mp, key), value, calls)
                  ELSE Returned(MapSet(mp, key, value), value, calls)
    ELSE Returned(mp, Undefined, <<>>)

\* Mutant: the branch is chosen by get(key) !== undefined instead of has(key).
computeIf_presenceByValue(mp, key, present, absent) ==
    LET there == get(mp, key, NoArg) # Undefined
        arg == IF there THEN <<key, get(mp, key, NoArg)>> ELSE <<key>>
        value == IF there THEN present[arg] ELSE absent[key]
        calls == <<Call(IF there THEN "present" ELSE "absent", key, arg, value)>>
    IN  IF value = Throw THEN Thrown(mp, calls)
        ELSE IF value = Undefined
             THEN Returned(MapDelete(mp, key), value, calls)
             ELSE Returned(MapSet(mp, key, value), value, calls)

computeIf(mp, key, present, absent) ==
    LET arg == IF MapHas(mp, key) THEN <<key, get(mp, key, NoArg)>> ELSE <<key>>
        value == IF MapHas(mp, key) THEN present[arg] ELSE absent[key]
        calls == <<Call(IF MapHas(mp, key) THEN "present" ELSE "absent", key, arg, value)>>
    IN  IF value = Throw THEN Thrown(mp, calls)
        ELSE IF value = Undefined
             THEN Returned(MapDelete(mp, key), value, calls)
             ELSE Returned(MapSet(mp, key, value), value, calls)

\* Mutant: presence is decided by has(key) instead of get(key) !== undefined.
merge_presenceByHas(mp, key, value, mappingFunction) ==
    LET prev == MapGet(mp, key)
        arg == <<prev, value>>
        v == IF ~MapHas(mp, key) THEN value ELSE mappingFunction[arg]
        calls == IF ~MapHas(mp, key) THEN <<>>
                 ELSE <<Call("mappingFunction", key, arg, v)>>
    IN  IF v = Throw THEN Thrown(mp, calls)
        ELSE IF v # Undefined
             THEN Returned(MapSet(mp, key, v), v, calls)
             ELSE Returned(MapDelete(mp, key), v, calls)

\* Mutant: the function is called as fn(value, oldValue).
merge_argsSwapped(mp, key, value, mappingFunction) ==
    LET prev == MapGet(mp, key)
        arg == <<value, prev>>
        v == IF prev = Undefined THEN value ELSE mappingFunction[arg]
        calls == IF prev = Undefined THEN <<>>
                 ELSE <<Call("mappingFunction", key, arg, v)>>
    IN  IF v = Throw THEN Thrown(mp, calls)
        ELSE IF v # Undefined
             THEN Returned(MapSet(mp, key, v), v, calls)
             ELSE Returned(MapDelete(mp, key), v, calls)

\* Mutant: the result is written with set even when it is undefined.
merge_storesUndefined(mp, key, value, mappingFunction) ==
    LET prev == MapGet(mp, key)
        arg == <<prev, value>>
        v == IF prev = Undefined THEN value ELSE mappingFunction[arg]
        calls == IF prev = Undefined THEN <<>>
                 ELSE <<Call("mappingFunction", key, arg, v)>>
    IN  IF v = Throw THEN Thrown(mp, calls)
        ELSE Returned(MapSet(mp, key, v), v, calls)

merge(mp, key, value, mappingFunction) ==
    LET prev == MapGet(mp, key)
        arg == <<prev, value>>
        v == IF prev = Undefined THEN value ELSE mappingFunction[arg]
        calls == IF prev = Undefined THEN <<>>
                 ELSE <<Call("mappingFunction", key, arg, v)>>
    IN  IF v = Throw THEN Thrown(mp, calls)
        ELSE IF v # Undefined
             THEN Returned(MapSet(mp, key, v), v, calls)
             ELSE Returned(MapDelete(mp, key), v, calls)

\* Mutant: the new value is returned whether or not it was stored.
replace_returnsNewValue(mp, key, value, previousValueArg) ==
    LET previousValue == DefaultParam(previousValueArg, undefinedSymbol)
    IN  IF MapHas(mp, key)
           /\ (previousValue = undefinedSymbol \/ ObjectIs(MapGet(mp, key), previousValue))
        THEN Returned(MapSet(mp, key, value), value, <<>>)
        ELSE Returned(mp, value, <<>>)

\* Mutant: the check that the key has an entry is missing.
replace_createsEntry(mp, key, value, previousValueArg) ==
    LET previousValue == DefaultParam(previousValueArg, undefinedSymbol)
    IN  IF previousValue = undefinedSymbol \/ ObjectIs(MapGet(mp, key), previousValue)
        THEN Returned(MapSet(mp, key, value), value, <<>>)
        ELSE Returned(mp, MapGet(mp, key), <<>>)

replace(mp, key, value, previousValueArg) ==
    LET previousValue == DefaultParam(previousValueArg, undefinedSymbol)
    IN  IF MapHas(mp, key)
           /\ (previousValue = undefinedSymbol \/ ObjectIs(MapGet(mp, key), previousValue))
        THEN Returned(MapSet(mp, key, value), value, <<>>)
        ELSE Returned(mp, MapGet(mp, key), <<>>)

\* Mutant: absence is decided by get(key) === undefined instead of has(key).
setIfAbsent_absenceByValue(mp, key, value) ==
    IF get(mp, key, NoArg) = Undefined
    THEN Returned(MapSet(mp, key, value), value, <<>>)
    ELSE Returned(mp, MapGet(mp, key), <<>>)

setIfAbsent(mp, key, value) ==
    IF ~MapHas(mp, key)
    THEN Returned(MapSet(mp, key, value), value, <<>>)
    ELSE Returned(mp, MapGet(mp, key), <<>>)

\* Mutant: the entry that follows a deleted entry is skipped.
RECURSIVE replaceAllFrom_skipsAfterDelete(_, _, _, _, _)
replaceAllFrom_skipsAfterDelete(entries, i, cur, calls, remapping) ==
    IF i > Len(entries) THEN Returned(cur, Undefined, calls)
    ELSE LET key == entries[i][1]
             arg == <<key, entries[i][2]>>
             n == remapping[arg]
             calls2 == Append(calls, Call("remapping", key, arg, n))
         IN  IF n = Throw THEN Thrown(cur, calls2)
             ELSE IF n = Undefined
                  THEN replaceAllFrom_skipsAfterDelete(entries, i + 2,
                           MapDelete(cur, key), calls2, remapping)
                  ELSE replaceAllFrom_skipsAfterDelete(entries, i + 1,
                           MapSet(cur, key, n), calls2, remapping)

\* for (const [key, value] of super.entries()): the entries present at the
\* start are visited in order; deleting the visited entry or setting an
\* existing key does not disturb the iteration.
RECURSIVE replaceAllFrom(_, _, _, _, _)
replaceAllFrom(entries, i, cur, calls, remapping) ==
    IF i > Len(entries) THEN Returned(cur, Undefined, calls)
    ELSE LET key == entries[i][1]
             arg == <<key, entries[i][2]>>
             n == remapping[arg]
             calls2 == Append(calls, Call("remapping", key, arg, n))
         IN  IF n = Throw THEN Thrown(cur, calls2)
             ELSE IF n = Undefined
                  THEN replaceAllFrom(entries, i + 1, MapDelete(cur, key), calls2, remapping)
                  ELSE replaceAllFrom(entries, i + 1, MapSet(cur, key, n), calls2, remapping)

replaceAll(mp, remapping) == replaceAllFrom(mp, 1, mp, <<>>, remapping)

\* setAll returns a new Map: the receiver and the argument after the call,
\* the entries of the Map created, and which object is returned.
SetAllReturned(self, other, newMap, calls) ==
    [m |-> self, other |-> other, new |-> newMap, ret |-> "newMap",
     calls |-> calls, threw |-> FALSE]

SetAllThrown(self, other, calls) ==
    [m |-> self, other |-> other, new |-> <<>>, ret |-> Throw,
     calls |-> calls, threw |-> TRUE]

\* Mutant: the check against keySet is missing in the second loop.
RECURSIVE setAllOther_noKeySetCheck(_, _, _, _, _, _, _)
setAllOther_noKeySetCheck(self, other, i, keySet, newMap, calls, mergeFunction) ==
    IF i > Len(other) THEN SetAllReturned(self, other, newMap, calls)
    ELSE LET key == other[i][1]
             arg == <<MapGet(self, key), other[i][2]>>
             newValue == mergeFunction[arg]
             calls2 == Append(calls, Call("mergeFunction", key, arg, newValue))
         IN  IF newValue = Throw THEN SetAllThrown(self, other, calls2)
             ELSE setAllOther_noKeySetCheck(self, other, i + 1, keySet,
                      IF newValue # Undefined THEN MapSet(newMap, key, newValue)
                      ELSE newMap,
                      calls2, mergeFunction)

\* for (const [key, value] of other.entries()): the keys not seen in the
\* first loop.
RECURSIVE setAllOther(_, _, _, _, _, _, _)
setAllOther(self, other, i, keySet, newMap, calls, mergeFunction) ==
    IF i > Len(other) THEN SetAllReturned(self, other, newMap, calls)
    ELSE LET key == other[i][1]
             arg == <<MapGet(self, key), other[i][2]>>
             newValue == mergeFunction[arg]
             calls2 == Append(calls, Call("mergeFunction", key, arg, newValue))
         IN  IF key \in keySet
             THEN setAllOther(self, other, i + 1, keySet, newMap, calls, mergeFunction)
             ELSE IF newValue = Throw THEN SetAllThrown(self, other, calls2)
                  ELSE setAllOther(self, other, i + 1, keySet,
                           IF newValue # Undefined THEN MapSet(newMap, key, newValue)
                           ELSE newMap,
                           calls2, mergeFunction)

\* Mutant: the merged value is written into the receiver, which is returned.
RECURSIVE setAllOwn_writesReceiver(_, _, _, _, _, _, _)
setAllOwn_writesReceiver(self, other, i, keySet, newMap, calls, mergeFunction) ==
    IF i > Len(self)
    THEN [setAllOther(self, other, 1, keySet, self, calls, mergeFunction)
             EXCEPT !.ret = IF @ = Throw THEN @ ELSE "this"]
    ELSE LET key == self[i][1]
             arg == <<self[i][2], MapGet(other, key)>>
             newValue == mergeFunction[arg]
             calls2 == Append(calls, Call("mergeFunction", key, arg, newValue))
         IN  IF newValue = Throw THEN SetAllThrown(self, other, calls2)
             ELSE setAllOwn_writesReceiver(
                      IF newValue # Undefined THEN MapSet(self, key, newValue) ELSE self,
                      other, i + 1, keySet \cup {key}, newMap, calls2, mergeFunction)

\* for (const [key, value] of super.entries()): every key of the receiver.
RECURSIVE setAllOwn(_, _, _, _, _, _, _)
setAllOwn(self, other, i, keySet, newMap, calls, mergeFunction) ==
    IF i > Len(self)
    THEN setAllOther(self, other, 1, keySet, newMap, calls, mergeFunction)
    ELSE LET key == self[i][1]
             arg == <<self[i][2], MapGet(other, key)>>
             newValue == mergeFunction[arg]
             calls2 == Append(calls, Call("mergeFunction", key, arg, newValue))
         IN  IF newValue = Throw THEN SetAllThrown(self, other, calls2)
             ELSE setAllOwn(self, other, i + 1, keySet \cup {key},
                      IF newValue # Undefined THEN MapSet(newMap, key, newValue)
                      ELSE newMap,
                      calls2, mergeFunction)

setAll(mp, other, mergeFunction) == setAllOwn(mp, other, 1, {}, <<>>, <<>>, mergeFunction)

----------------------------------------------------------------------------
\* The functions callers pass.

\* (key, value) => value === undefined ? a : b
Fn2 == {[kv \in Keys \X Val |-> IF kv[2] = Undefined THEN a ELSE b] :
            a \in Outcome, b \in Outcome}

\* (key) => a
Fn1 == {[k \in Keys |-> a] : a \in Outcome}

\* (oldValue, value) => a
FnMerge == {[p \in Val \X Val |-> a] : a \in Outcome}

\* (key, value) => g(key)
FnAll == {[kv \in Keys \X Val |-> g[kv[1]]] : g \in [Keys -> Outcome]}

\* (v1, v2) => v1 && v2 ? a : (v1 ?? v2), as in the example of setAll, and
\* (v1, v2) => v1 && v2 ? a : undefined
FnSetAll == {[p \in Val \X Val |->
                IF p[1] # Undefined /\ p[2] # Undefined THEN a
                ELSE IF ~coalesce THEN Undefined
                ELSE IF p[1] # Undefined THEN p[1] ELSE p[2]] :
                a \in Outcome, coalesce \in BOOLEAN}

\* The Maps a caller can pass as the other map: entries with distinct keys in
\* any order.
OtherMaps == {o \in UNION {[1..n -> Keys \X Val] : n \in 0..NumKeys} :
                \A i, j \in 1..Len(o) : o[i][1] = o[j][1] => i = j}

----------------------------------------------------------------------------
\* The state machine: one action per method call.

Idle == [op |-> "idle", key |-> 0, args |-> <<>>, fns |-> <<>>, pre |-> <<>>,
         ret |-> Undefined, calls |-> <<>>, threw |-> FALSE,
         new |-> <<>>, other |-> <<>>]

\* What is recorded of a call made on map mp with result r.
Record(op, key, args, fns, mp, r) ==
    [op |-> op, key |-> key, args |-> args, fns |-> fns, pre |-> mp,
     ret |-> r.ret, calls |-> r.calls, threw |-> r.threw,
     new |-> IF "new" \in DOMAIN r THEN r.new ELSE <<>>,
     other |-> IF "other" \in DOMAIN r THEN r.other ELSE <<>>]

Init ==
    /\ m = <<>>
    /\ last = Idle

\* Map.prototype.set, inherited unchanged.
Set ==
    /\ last = Idle
    /\ \E key \in Keys, value \in Val :
          /\ m' = MapSet(m, key, value)
          /\ last' = Record("set", key, <<value>>, <<>>, m, Returned(m', "this", <<>>))

Compute ==
    /\ last = Idle
    /\ \E key \in Keys, fn \in Fn2 :
          LET r == compute(m, key, fn)
          IN  /\ m' = r.m
              /\ last' = Record("compute", key, <<>>, <<fn>>, m, r)

ComputeIfAbsent ==
    /\ last = Idle
    /\ \E key \in Keys, fn \in Fn1 :
          LET r == computeIfAbsent(m, key, fn)
          IN  /\ m' = r.m
              /\ last' = Record("computeIfAbsent", key, <<>>, <<fn>>, m, r)

ComputeIfPresent ==
    /\ last = Idle
    /\ \E key \in Keys, fn \in Fn2 :
          LET r == computeIfPresent(m, key, fn)
          IN  /\ m' = r.m
              /\ last' = Record("computeIfPresent", key, <<>>, <<fn>>, m, r)

ComputeIf ==
    /\ last = Idle
    /\ \E key \in Keys, present \in Fn2, absent \in Fn1 :
          LET r == computeIf(m, key, present, absent)
          IN  /\ m' = r.m
              /\ last' = Record("computeIf", key, <<>>, <<present, absent>>, m, r)

Merge ==
    /\ last = Idle
    /\ \E key \in Keys, value \in Val, fn \in FnMerge :
          LET r == merge(m, key, value, fn)
          IN  /\ m' = r.m
              /\ last' = Record("merge", key, <<value>>, <<fn>>, m, r)

Delete ==
    /\ last = Idle
    /\ \E key \in Keys, value \in Val \cup {NoArg} :
          LET r == delete(m, key, value)
          IN  /\ m' = r.m
              /\ last' = Record("delete", key, <<value>>, <<>>, m, r)

Replace ==
    /\ last = Idle
    /\ \E key \in Keys, value \in Val, previousValue \in Val \cup {NoArg} :
          LET r == replace(m, key, value, previousValue)
          IN  /\ m' = r.m
              /\ last' = Record("replace", key, <<value, previousValue>>, <<>>, m, r)

ReplaceAll ==
    /\ last = Idle
    /\ \E fn \in FnAll :
          LET r == replaceAll(m, fn)
          IN  /\ m' = r.m
              /\ last' = Record("replaceAll", 0, <<>>, <<fn>>, m, r)

SetIfAbsent ==
    /\ last = Idle
    /\ \E key \in Keys, value \in Val :
          LET r == setIfAbsent(m, key, value)
          IN  /\ m' = r.m
              /\ last' = Record("setIfAbsent", key, <<value>>, <<>>, m, r)

Get ==
    /\ last = Idle
    /\ \E key \in Keys, def \in Val \cup {NoArg} :
          /\ m' = m
          /\ last' = Record("get", key, <<def>>, <<>>, m, Returned(m, get(m, key, def), <<>>))

HasValue ==
    /\ last = Idle
    /\ \E value \in Val :
          LET r == hasValue(m, value)
          IN  /\ m' = r.m
              /\ last' = Record("hasValue", 0, <<value>>, <<>>, m, r)

Empty ==
    /\ last = Idle
    /\ m' = m
    /\ last' = Record("empty", 0, <<>>, <<>>, m, Returned(m, empty(m), <<>>))

SetAll ==
    /\ last = Idle
    /\ \E other \in OtherMaps, fn \in FnSetAll :
          LET r == setAll(m, other, fn)
          IN  /\ m' = r.m
              /\ last' = Record("setAll", 0, <<other>>, <<fn>>, m, r)

\* The call has returned (or thrown) to the caller, who goes on.
Return ==
    /\ last # Idle
    /\ last' = Idle
    /\ UNCHANGED m

Next ==
    \/ Return
    \/ Set
    \/ Compute
    \/ ComputeIfAbsent
    \/ ComputeIfPresent
    \/ ComputeIf
    \/ Merge
    \/ Delete
    \/ Replace
    \/ ReplaceAll
    \/ SetIfAbsent
    \/ Get
    \/ HasValue
    \/ Empty

Spec == Init /\ [][Next]_vars

\* The receiver is built with the native set, then merged with another map.
NextSetAll ==
    \/ Return
    \/ Set
    \/ SetAll

SpecSetAll == Init /\ [][NextSetAll]_vars

\* Every operation of the extended map.
NextAll ==
    \/ Next
    \/ SetAll

SpecAll == Init /\ [][NextAll]_vars

\* The operations that store no undefined: what the caller's function returns
\* is stored unless it is undefined, and delete only removes.
NextClean ==
    \/ Return
    \/ Compute
    \/ ComputeIfAbsent
    \/ ComputeIfPresent
    \/ ComputeIf
    \/ Merge
    \/ ReplaceAll
    \/ Delete

SpecClean == Init /\ [][NextClean]_vars

----------------------------------------------------------------------------
\* CollectionSet: a native Set is a sequence of distinct values in insertion
\* order; membership is by SameValueZero, the identity on the tokens of Val.

SetHas(st, value) == \E i \in 1..Len(st) : st[i] = value

SetAdd(st, value) == IF SetHas(st, value) THEN st ELSE Append(st, value)

SetValues(st) == {st[i] : i \in 1..Len(st)}

\* Adds the values of an iterable, from the i-th on, to newSet: the
\* constructor from an iterable, and the loop of union.
RECURSIVE addAllFrom(_, _, _)
addAllFrom(values, i, newSet) ==
    IF i > Len(values)
    THEN newSet
    ELSE addAllFrom(values, i + 1, SetAdd(newSet, values[i]))

\* Mutant: the new set starts empty instead of as a copy of the receiver.
union_omitsReceiver(self, other) ==
    LET newSet == <<>>
    IN  [m |-> self, other |-> other, new |-> addAllFrom(other, 1, newSet),
         ret |-> "newSet", calls |-> <<>>, threw |-> FALSE]

\* Mutant: the values of other are added to the receiver, which is returned.
union_addsToReceiver(self, other) ==
    LET newSet == addAllFrom(other, 1, self)
    IN  [m |-> newSet, other |-> other, new |-> newSet,
         ret |-> "this", calls |-> <<>>, threw |-> FALSE]

\* The receiver and the other set after the call, and the returned set; only
\* newSet is written, so the result is the same when other is the receiver.
union(self, other) ==
    LET newSet == addAllFrom(self, 1, <<>>)
    IN  [m |-> self, other |-> other, new |-> addAllFrom(other, 1, newSet),
         ret |-> "newSet", calls |-> <<>>, threw |-> FALSE]

\* The sets a caller passes to union.
OtherSets ==
    {st \in UNION {[1..n -> Val] : n \in 0..Cardinality(Val)} :
        \A i, j \in 1..Len(st) : st[i] = st[j] => i = j}

\* Set.prototype.add, inherited unchanged.
Add ==
    /\ last = Idle
    /\ \E value \in Val :
          /\ m' = SetAdd(m, value)
          /\ last' = Record("add", 0, <<value>>, <<>>, m, Returned(m', "this", <<>>))

Union ==
    /\ last = Idle
    /\ \E other \in OtherSets :
          LET r == union(m, other)
          IN  /\ m' = r.m
              /\ last' = Record("union", 0, <<other>>, <<>>, m, r)

NextSet ==
    \/ Return
    \/ Add
    \/ Union

SpecSet == Init /\ [][NextSet]_vars

----------------------------------------------------------------------------
TypeOK ==
    /\ \A i \in 1..Len(m) : m[i][1] \in Keys /\ m[i][2] \in Val
    /\ \A i, j \in 1..Len(m) : m[i][1] = m[j][1] => i = j

----------------------------------------------------------------------------
\* Vocabulary of the properties.

\* The call recorded in `last` and its result.
LastRun == [m |-> m, ret |-> last.ret, calls |-> last.calls, threw |-> last.threw]

\* Two maps hold the same keys with the same values.
SameEntries(a, b) ==
    \A k \in Keys : MapHas(a, k) = MapHas(b, k) /\ MapGet(a, k) = MapGet(b, k)

\* Two runs return the same, invoke the caller's functions the same way and
\* end with the same entries.
SameRun(a, b) ==
    /\ a.ret = b.ret
    /\ a.threw = b.threw
    /\ a.calls = b.calls
    /\ SameEntries(a.m, b.m)

\* The key has no entry or an entry holding undefined.
AbsentOrUndefined(mp, key) == MapGet(mp, key) = Undefined

\* The map that differs only in how the key is absent: without its entry when
\* the entry holds undefined, with an entry holding undefined (native set)
\* when there is none.
Twin(mp, key) ==
    IF MapHas(mp, key) THEN MapDelete(mp, key) ELSE MapSet(mp, key, Undefined)

\* The recorded call of a compute-family method, made on another map.
RunOn(mp) ==
    CASE last.op = "compute" -> compute(mp, last.key, last.fns[1])
      [] last.op = "computeIfAbsent" -> computeIfAbsent(mp, last.key, last.fns[1])
      [] last.op = "computeIfPresent" -> computeIfPresent(mp, last.key, last.fns[1])
      [] last.op = "computeIf" -> computeIf(mp, last.key, last.fns[1], last.fns[2])
      [] last.op = "merge" -> merge(mp, last.key, last.args[1], last.fns[1])

ComputeFamily == {"compute", "computeIfAbsent", "computeIfPresent", "computeIf", "merge"}

\* The caller's function returned out for the key: the result is stored and
\* returned, or the entry is removed and undefined returned.
StoredOrRemoved(out) ==
    /\ out = Throw => last.threw
    /\ out = Undefined => ~MapHas(m, last.key) /\ last.ret = Undefined /\ ~last.threw
    /\ out \notin {Undefined, Throw} =>
          /\ MapHas(m, last.key)
          /\ MapGet(m, last.key) = out
          /\ last.ret = out
          /\ ~last.threw

----------------------------------------------------------------------------
C2_UndefinedResultLeavesNoEntry ==
    last.op \in ComputeFamily \cup {"replaceAll"} =>
        \A i \in 1..Len(last.calls) :
            last.calls[i].out = Undefined => ~MapHas(m, last.calls[i].key)

C2_Witness ==
    /\ last.op = "compute"
    /\ MapHas(last.pre, last.key)
    /\ MapGet(last.pre, last.key) = "1"
    /\ Len(last.calls) = 1
    /\ last.calls[1].out = Undefined
    /\ ~MapHas(m, last.key)

\* C3: compute(K, fn) invokes fn exactly once, with K and the value stored
\* for K (undefined when K has no entry); a result other than undefined is
\* stored for K and returned; on undefined K has no entry afterwards and
\* undefined is returned.
C3_Compute ==
    last.op = "compute" =>
        /\ Len(last.calls) = 1
        /\ last.calls[1].args = <<last.key, MapGet(last.pre, last.key)>>
        /\ last.calls[1].out = last.fns[1][last.calls[1].args]
        /\ StoredOrRemoved(last.calls[1].out)

C3_Witness ==
    /\ last.op = "compute"
    /\ ~MapHas(last.pre, last.key)
    /\ last.calls[1].args = <<last.key, Undefined>>
    /\ last.calls[1].out = "1"
    /\ MapGet(m, last.key) = "1"
    /\ last.ret = "1"

\* C4 (as stated): delete(K, expected) with a second argument, undefined
\* included, removes the entry if and only if K has an entry whose value is
\* same-value-equal to expected, returns true exactly when it removed it,
\* and otherwise returns false and leaves the map unchanged.
C4_DeleteWithExpected ==
    (last.op = "delete" /\ last.args[1] # NoArg) =>
        LET matches == MapHas(last.pre, last.key)
                         /\ ObjectIs(MapGet(last.pre, last.key), last.args[1])
        IN  /\ matches => last.ret = "true" /\ ~MapHas(m, last.key)
            /\ ~matches => last.ret = "false" /\ m = last.pre

\* C5 (as stated): replace(K, v, expectedOld) with a third argument,
\* undefined included, stores and returns v if and only if K has an entry
\* whose value is same-value-equal to expectedOld; otherwise the map is
\* unchanged and the current value of K is returned.
C5_ReplaceWithExpected ==
    (last.op = "replace" /\ last.args[2] # NoArg) =>
        LET matches == MapHas(last.pre, last.key)
                         /\ ObjectIs(MapGet(last.pre, last.key), last.args[2])
        IN  /\ matches => last.ret = last.args[1] /\ MapGet(m, last.key) = last.args[1]
                          /\ MapHas(m, last.key)
            /\ ~matches => last.ret = MapGet(last.pre, last.key) /\ m = last.pre

\* C6: computeIf branches on the native existence check: with an entry for K
\* (also one holding undefined) it invokes present once with K and the stored
\* value and never absent; without one it invokes absent once with K and
\* never present; the result is stored, or the entry removed on undefined,
\* and returned.
C6_ComputeIf ==
    last.op = "computeIf" =>
        /\ Len(last.calls) = 1
        /\ MapHas(last.pre, last.key) =>
              /\ last.calls[1].fn = "present"
              /\ last.calls[1].args = <<last.key, MapGet(last.pre, last.key)>>
              /\ last.calls[1].out = last.fns[1][last.calls[1].args]
        /\ ~MapHas(last.pre, last.key) =>
              /\ last.calls[1].fn = "absent"
              /\ last.calls[1].args = <<last.key>>
              /\ last.calls[1].out = last.fns[2][last.key]
        /\ StoredOrRemoved(last.calls[1].out)

C6_Witness ==
    /\ last.op = "computeIf"
    /\ MapHas(last.pre, last.key)
    /\ MapGet(last.pre, last.key) = Undefined
    /\ last.calls[1].fn = "present"
    /\ last.calls[1].out = "1"
    /\ last.fns[2][last.key] = "NaN"
    /\ MapGet(m, last.key) = "1"

C8_ComputeIfAbsentMissingKey ==
    (last.op = "computeIfAbsent" /\ ~MapHas(last.pre, last.key)) =>
        /\ Len(last.calls) = 1
        /\ last.calls[1].args = <<last.key>>
        /\ last.calls[1].out = last.fns[1][last.key]
        /\ StoredOrRemoved(last.calls[1].out)
        /\ last.calls[1].out = Undefined => m = last.pre

C8_Witness ==
    /\ last.op = "computeIfAbsent"
    /\ ~MapHas(last.pre, last.key)
    /\ Len(last.pre) = 1
    /\ last.calls[1].out = "NaN"
    /\ MapGet(m, last.key) = "NaN"
    /\ last.ret = "NaN"

C10_Merge ==
    (last.op = "merge" /\ last.args[1] # Undefined) =>
        LET d == last.args[1]
            prev == MapGet(last.pre, last.key)
        IN  /\ prev = Undefined =>
                  /\ last.calls = <<>>
                  /\ StoredOrRemoved(d)
            /\ prev # Undefined =>
                  /\ Len(last.calls) = 1
                  /\ last.calls[1].args = <<prev, d>>
                  /\ last.calls[1].out = last.fns[1][<<prev, d>>]
                  /\ StoredOrRemoved(last.calls[1].out)
            /\ ~MapHas(last.pre, last.key) =>
                  \A d2 \in Val \ {Undefined}, g \in FnMerge :
                      merge(m, last.key, d2, g).calls
                          = <<Call("mappingFunction", last.key, <<d, d2>>, g[<<d, d2>>])>>

C10_Witness ==
    /\ last.op = "merge"
    /\ last.args[1] = "NaN"
    /\ MapGet(last.pre, last.key) = "1"
    /\ last.calls[1].args = <<"1", "NaN">>
    /\ last.calls[1].out = "1"
    /\ MapGet(m, last.key) = "1"

\* The function the recorded call of a compute-family method would hand to
\* compute to act as a restricted form of it:
\*   computeIfAbsent(K, f)   (k, v) => v === undefined ? f(k) : v
\*   computeIfPresent(K, f)  (k, v) => v === undefined ? undefined : f(k, v)
\*   computeIf(K, {p, a})    (k, v) => v === undefined ? a(k) : p(k, v)
\*   merge(K, d, f)          (k, v) => v === undefined ? d : f(v, d)
AsComputeFn ==
    [kv \in Keys \X Val |->
        CASE last.op = "computeIfAbsent" ->
                IF kv[2] = Undefined THEN last.fns[1][kv[1]] ELSE kv[2]
          [] last.op = "computeIfPresent" ->
                IF kv[2] = Undefined THEN Undefined ELSE last.fns[1][kv]
          [] last.op = "computeIf" ->
                IF kv[2] = Undefined THEN last.fns[2][kv[1]] ELSE last.fns[1][kv]
          [] last.op = "merge" ->
                IF kv[2] = Undefined THEN last.args[1]
                ELSE last.fns[1][<<kv[2], last.args[1]>>]]

\* The recorded call returned what compute with AsComputeFn returns on the
\* same map, and left the same map.
SameAsCompute ==
    LET c == compute(last.pre, last.key, AsComputeFn)
    IN  /\ c.ret = last.ret
        /\ c.threw = last.threw
        /\ c.m = m

HoldsUndefined(mp, key) == MapHas(mp, key) /\ MapGet(mp, key) = Undefined

C12_DeleteUnconditional ==
    (last.op = "delete" /\ last.args[1] = NoArg) =>
        /\ ~MapHas(m, last.key)
        /\ last.ret = Bool(MapHas(last.pre, last.key))
        /\ ~last.threw

C12_Witness ==
    /\ last.op = "delete"
    /\ last.args[1] = NoArg
    /\ MapHas(last.pre, last.key)
    /\ MapGet(last.pre, last.key) = "1"
    /\ last.ret = "true"
    /\ ~MapHas(m, last.key)

\* C13: replace never creates an entry: on a map with no entry for K the map
\* is unchanged and undefined is returned; the key set after replace is the
\* key set before; replace(K, v) with two arguments on an existing K stores
\* v and returns v.
C13_ReplaceNeverCreates ==
    last.op = "replace" =>
        /\ ~MapHas(last.pre, last.key) => m = last.pre /\ last.ret = Undefined
        /\ MapKeys(m) = MapKeys(last.pre)
        /\ (MapHas(last.pre, last.key) /\ last.args[2] = NoArg) =>
              /\ MapGet(m, last.key) = last.args[1]
              /\ last.ret = last.args[1]

C13_Witness ==
    /\ last.op = "replace"
    /\ ~MapHas(last.pre, last.key)
    /\ Len(last.pre) = 1
    /\ last.args = <<"1", NoArg>>
    /\ last.ret = Undefined
    /\ m = last.pre

\* C14: setAll(other, fn) with a fn that does not throw invokes fn exactly
\* once for every key of this map or of other, with this map's value and
\* other's value for the key (undefined where the key is missing), and for no
\* other key; the map returned has an entry K -> r exactly for the keys whose
\* result r is not undefined.
C14_SetAll ==
    (last.op = "setAll" /\ ~last.threw) =>
        LET other == last.args[1]
            allKeys == MapKeys(last.pre) \cup MapKeys(other)
            args(k) == <<MapGet(last.pre, k), MapGet(other, k)>>
            fn == last.fns[1]
        IN  /\ Len(last.calls) = Cardinality(allKeys)
            /\ \A k \in allKeys :
                  \E i \in 1..Len(last.calls) :
                      /\ last.calls[i].key = k
                      /\ last.calls[i].args = args(k)
                      /\ last.calls[i].out = fn[args(k)]
            /\ \A k \in Keys :
                  /\ MapHas(last.new, k) <=> (k \in allKeys /\ fn[args(k)] # Undefined)
                  /\ MapHas(last.new, k) => MapGet(last.new, k) = fn[args(k)]
            /\ Len(last.new) = Cardinality(MapKeys(last.new))

C14_Witness ==
    /\ last.op = "setAll"
    /\ last.pre = <<<<1, "1">>>>
    /\ last.args[1] = <<<<1, "NaN">>, <<2, "1">>>>
    /\ last.fns[1][<<"1", "NaN">>] = "NaN"
    /\ Len(last.calls) = 2
    /\ last.new = <<<<1, "NaN">>, <<2, "1">>>>

\* C15: setAll(other, fn) mutates neither input: after the call this map and
\* other hold the entries they held before, and the map returned is a new
\* container, neither this map nor other.
C15_SetAllNoMutation ==
    last.op = "setAll" =>
        /\ m = last.pre
        /\ last.other = last.args[1]
        /\ ~last.threw => last.ret = "newMap"

C15_Witness ==
    /\ last.op = "setAll"
    /\ Len(last.pre) = 2
    /\ Len(last.args[1]) = 1
    /\ MapGet(last.args[1], 1) = "NaN"
    /\ MapGet(last.pre, 1) = "1"
    /\ MapGet(last.new, 1) = "1"
    /\ last.ret = "newMap"
    /\ m = last.pre

\* C16: replaceAll(fn) with a fn that does not throw invokes fn exactly once
\* for each entry present when the call starts, in iteration order, with the
\* entry's key and value; each entry is set to the result, or removed when
\* the result is undefined; the keys afterwards are the original keys whose
\* result was not undefined, and nothing is returned.
C16_ReplaceAll ==
    (last.op = "replaceAll" /\ ~last.threw) =>
        /\ Len(last.calls) = Len(last.pre)
        /\ \A i \in 1..Len(last.pre) :
              /\ last.calls[i].key = last.pre[i][1]
              /\ last.calls[i].args = last.pre[i]
              /\ last.calls[i].out = last.fns[1][last.pre[i]]
              /\ last.calls[i].out = Undefined => ~MapHas(m, last.pre[i][1])
              /\ last.calls[i].out # Undefined =>
                    /\ MapHas(m, last.pre[i][1])
                    /\ MapGet(m, last.pre[i][1]) = last.calls[i].out
        /\ MapKeys(m) = {last.pre[i][1] : i \in {j \in 1..Len(last.pre) :
                                                  last.calls[j].out # Undefined}}
        /\ last.ret = Undefined

C16_Witness ==
    /\ last.op = "replaceAll"
    /\ ~last.threw
    /\ Len(last.pre) = 2
    /\ last.calls[1].out = Undefined
    /\ last.calls[2].out = "NaN"
    /\ m = <<<<last.pre[2][1], "NaN">>>>

NoCallThrew == \A i \in 1..Len(last.calls) : last.calls[i].out # Throw

\* C18: no operation throws because a key is missing: when the caller's
\* function does not throw the call completes normally, and on a key with no
\* entry computeIfPresent and replace return undefined, delete returns false
\* and get returns the supplied default (undefined without one).
C18_NoThrowOnMissingKey ==
    (last.op # "idle" /\ NoCallThrew) =>
        /\ ~last.threw
        /\ last.ret # Throw
        /\ (last.key \in Keys /\ ~MapHas(last.pre, last.key)) =>
              /\ last.op \in {"computeIfPresent", "replace"} => last.ret = Undefined
              /\ last.op = "delete" => last.ret = "false"
              /\ last.op = "get" =>
                    last.ret = (IF last.args[1] = NoArg THEN Undefined ELSE last.args[1])

C18_Witness ==
    /\ last.op = "computeIfPresent"
    /\ last.pre # <<>>
    /\ ~MapHas(last.pre, last.key)
    /\ last.fns[1][<<last.key, Undefined>>] = Throw
    /\ last.ret = Undefined
    /\ ~last.threw

\* C19: hasValue(x) returns true if and only if some entry holds a value
\* that is same-value-equal to x, whatever its key (for undefined: only when
\* an entry holds undefined), and does not change the map.
C19_HasValue ==
    last.op = "hasValue" =>
        /\ last.ret = Bool(\E k \in Keys :
                              /\ MapHas(last.pre, k)
                              /\ MapGet(last.pre, k) = last.args[1])
        /\ m = last.pre

C19_Witness ==
    /\ last.op = "hasValue"
    /\ last.args[1] = "NaN"
    /\ Len(last.pre) = 2
    /\ last.pre[1][2] = Undefined
    /\ last.pre[2][2] = "NaN"
    /\ last.ret = "true"

\* C20: get(K, def) returns the stored value when K has an entry, even one
\* holding undefined, and def when K has none (undefined when def is left
\* out); it does not change the map.
C20_Get ==
    last.op = "get" =>
        /\ MapHas(last.pre, last.key) => last.ret = MapGet(last.pre, last.key)
        /\ ~MapHas(last.pre, last.key) =>
              last.ret = (IF last.args[1] = NoArg THEN Undefined ELSE last.args[1])
        /\ m = last.pre

C20_Witness ==
    /\ last.op = "get"
    /\ MapHas(last.pre, last.key)
    /\ MapGet(last.pre, last.key) = Undefined
    /\ last.args[1] = "1"
    /\ last.ret = Undefined

\* C21: setIfAbsent(K, v) stores v for K and returns it when K has no entry;
\* when K has an entry, whatever it holds, the map is unchanged and the
\* stored value is returned.  No caller function is involved.
C21_SetIfAbsent ==
    last.op = "setIfAbsent" =>
        /\ ~MapHas(last.pre, last.key) =>
              /\ MapHas(m, last.key)
              /\ MapGet(m, last.key) = last.args[1]
              /\ last.ret = last.args[1]
        /\ MapHas(last.pre, last.key) =>
              /\ m = last.pre
              /\ last.ret = MapGet(last.pre, last.key)
        /\ last.calls = <<>>
        /\ ~last.threw

C21_Witness ==
    /\ last.op = "setIfAbsent"
    /\ MapHas(last.pre, last.key)
    /\ MapGet(last.pre, last.key) = Undefined
    /\ last.args[1] = "1"
    /\ last.ret = Undefined
    /\ m = last.pre

\* C22: union(other) returns a set whose members are exactly the values that
\* are in this set or in other, each of them once.
C22_Union ==
    last.op = "union" =>
        /\ SetValues(last.new) = SetValues(last.pre) \cup SetValues(last.args[1])
        /\ \A i, j \in 1..Len(last.new) : last.new[i] = last.new[j] => i = j

C22_Witness ==
    /\ last.op = "union"
    /\ last.pre = <<"1">>
    /\ SetValues(last.args[1]) = {"1", "NaN"}
    /\ Len(last.new) = 2

\* C23: union(other) leaves this set and other with the members they had
\* before the call and returns a set that is neither of them, also when
\* other is empty or has the members of this set.
C23_UnionNoMutation ==
    last.op = "union" =>
        /\ m = last.pre
        /\ last.other = last.args[1]
        /\ last.ret = "newSet"
        /\ ~last.threw

C23_Witness ==
    /\ last.op = "union"
    /\ Len(last.pre) = 2
    /\ last.args[1] = last.pre
    /\ m = last.pre
    /\ last.ret = "newSet"

C23_WitnessEmptyOther ==
    /\ last.op = "union"
    /\ Len(last.pre) = 2
    /\ last.args[1] = <<>>
    /\ m = last.pre
    /\ last.new = last.pre

\* C24: in every reachable state the empty property is true exactly when the
\* map has no entry: what a read of empty returns says whether the map had
\* entries, it is true after a compute-family call removed the only entry,
\* and false for a map whose only entry holds undefined.
C24_Empty ==
    /\ empty(m) = Bool(\A k \in Keys : ~MapHas(m, k))
    /\ last.op = "empty" => last.ret = Bool(MapKeys(last.pre) = {})
    /\ (last.op \in ComputeFamily /\ MapKeys(last.pre) = {last.key} /\ ~MapHas(m, last.key))
          => empty(m) = Bool(TRUE)
    /\ (Len(m) = 1 /\ m[1][2] = Undefined) => empty(m) = Bool(FALSE)

C24_Witness ==
    /\ last.op = "empty"
    /\ Len(last.pre) = 1
    /\ last.pre[1][2] = Undefined
    /\ last.ret = Bool(FALSE)

C24_WitnessLastEntryRemoved ==
    /\ last.op = "computeIfPresent"
    /\ Len(last.pre) = 1
    /\ Len(last.calls) = 1
    /\ last.calls[1].out = Undefined
    /\ empty(m) = Bool(TRUE)

\* C25 (as stated): merge(K, d, fn) whose default d is undefined, or whose
\* function computes undefined, applies no mapping: K has no entry after the
\* call and undefined is returned.
C25_MergeUndefinedNotApplied ==
    (/\ last.op = "merge"
     /\ ~last.threw
     /\ \/ last.args[1] = Undefined
        \/ \E i \in 1..Len(last.calls) : last.calls[i].out = Undefined)
        => /\ ~MapHas(m, last.key)
           /\ last.ret = Undefined

\* C26: on a map built from the empty map with compute, computeIfAbsent,
\* computeIfPresent, computeIf, merge, replaceAll and delete alone, whatever
\* the caller's functions return, no entry holds undefined: a key has an
\* entry exactly when its native lookup is not undefined.
C26_NoUndefinedEntry ==
    /\ \A i \in 1..Len(m) : m[i][2] # Undefined
    /\ \A k \in Keys : MapHas(m, k) <=> MapGet(m, k) # Undefined

C26_Witness ==
    /\ last.op = "replaceAll"
    /\ Len(last.pre) = 2
    /\ \E i \in 1..Len(last.calls) : last.calls[i].out = Undefined
    /\ ~last.threw
    /\ Len(m) = 1

\* The operations that work on one key.
SingleKey ==
    {"compute", "computeIfAbsent", "computeIfPresent", "computeIf", "merge",
     "delete", "replace", "setIfAbsent"}

\* C27: an operation on key K leaves every other key as it was: it has an
\* entry after the call exactly when it had one before, with the same value.
C27_OtherKeysUnchanged ==
    last.op \in SingleKey =>
        \A k \in Keys \ {last.key} :
            /\ MapHas(m, k) = MapHas(last.pre, k)
            /\ MapGet(m, k) = MapGet(last.pre, k)

C27_Witness ==
    /\ last.op = "delete"
    /\ Len(last.pre) = 2
    /\ last.pre[1][2] = last.pre[2][2]
    /\ last.args[1] = last.pre[1][2]
    /\ last.ret = Bool(TRUE)
    /\ Len(m) = 1

\* C28: when the caller's function throws in compute, computeIfAbsent,
\* computeIfPresent, computeIf or merge, the exception propagates and the map
\* is as before the call; when it throws in replaceAll, the exception
\* propagates, the entries visited before the throwing one are replaced or
\* removed and the throwing entry and the later ones are as before.
C28_Throwing ==
    (\E c \in 1..Len(last.calls) : last.calls[c].out = Throw) =>
        /\ last.threw
        /\ last.ret = Throw
        /\ last.op \in ComputeFamily => m = last.pre
        /\ last.op = "replaceAll" =>
              LET j == Len(last.calls)
              IN  /\ j <= Len(last.pre)
                  /\ last.calls[j].out = Throw
                  /\ \A i \in 1..(j - 1) :
                        LET key == last.pre[i][1]
                            out == last.calls[i].out
                        IN  /\ last.calls[i].key = key
                            /\ IF out = Undefined
                               THEN ~MapHas(m, key)
                               ELSE MapHas(m, key) /\ MapGet(m, key) = out
                  /\ \A i \in j..Len(last.pre) :
                        /\ MapHas(m, last.pre[i][1])
                        /\ MapGet(m, last.pre[i][1]) = last.pre[i][2]

C28_Witness ==
    /\ last.op = "compute"
    /\ last.threw
    /\ MapHas(last.pre, last.key)
    /\ Len(last.pre) = 2
    /\ m = last.pre

C28_WitnessReplaceAll ==
    /\ last.op = "replaceAll"
    /\ last.threw
    /\ Len(last.calls) = 2
    /\ last.calls[1].out = Undefined
    /\ Len(m) = 1
    /\ m[1] = last.pre[2]

====
